---- MODULE Spec2Model ----
(***************************************************************************)
(* The binary trie with memoized Merkle digests of src/src/trie_node.rs.   *)
(*                                                                         *)
(* A TrieNode<T> is a record [maybe_data, children,                        *)
(* maybe_cached_merkle_root]; a node owns its two children, so the tree is *)
(* a nested value.  Option<X> is a sequence of length 0 (None) or 1        *)
(* (Some(x)); this keeps Some("") and None apart.  A String is a sequence  *)
(* of one-character strings.  Rust's 0-based indices i into children and   *)
(* into the path are i + 1 here.                                           *)
(*                                                                         *)
(* The payload type is T = String, the type the Merkle tests use.          *)
(***************************************************************************)
EXTENDS Integers, Sequences, FiniteSets, TLC

\* ------------------------------------------------------------------ bounds

\* Keys range over 0..MaxKey (u32 in the source).
MaxKey == 3

\* Payload strings have at most MaxLen characters.
MaxLen == 1

Keys == 0..MaxKey

\* path_to_node on its own is called with the keys 0..MaxPathKey.
MaxPathKey == 255

PathKeys == 0..MaxPathKey

\* Where set_data is called on the root too, insert and find_by_key take
\* the keys 0..MaxSetDataKey.
MaxSetDataKey == 1

SetDataKeys == 0..MaxSetDataKey

\* The step properties of insert, which compare the tree before and after
\* every insert step, are checked with the keys 0..MaxStepKey.
MaxStepKey == 2

StepKeys == 0..MaxStepKey

\* The payload strings: every string over {"a"} of length <= MaxLen,
\* the empty string included.
Values == UNION {[1..n -> {"a"}] : n \in 0..MaxLen}

\* ------------------------------------------------------------------ Option

None == <<>>

Some(x) == <<x>>

is_some(o) == Len(o) = 1

is_none(o) == Len(o) = 0

unwrap(o) == o[1]

\* ------------------------------------------------------------------ TrieNode

\* Variant of new: the default node carries the default payload, the empty
\* string, instead of no payload.
new_filled == [maybe_data |-> Some(<<>>),
               children |-> <<None, None>>,
               maybe_cached_merkle_root |-> None]

\* TrieNode::default(): no payload, no children, no cached digest.
new == [maybe_data |-> None,
        children |-> <<None, None>>,
        maybe_cached_merkle_root |-> None]

new_with(data) == [new EXCEPT !.maybe_data = Some(data)]

\* Variant of set_data: the node is replaced by a fresh one with the payload.
set_data_fresh(self, data) == new_with(data)

\* Variant of set_data: the cached digest is cleared with the write.
set_data_invalidating(self, data) ==
    [self EXCEPT !.maybe_data = Some(data), !.maybe_cached_merkle_root = None]

\* Variant of set_data: the payload already there is kept.
set_data_keep(self, data) ==
    IF is_some(self.maybe_data) THEN self ELSE [self EXCEPT !.maybe_data = Some(data)]

set_data(self, data) == [self EXCEPT !.maybe_data = Some(data)]

get_data(self) == self.maybe_data

\* ------------------------------------------------------------------ path

RECURSIVE format_b(_)

\* Variant of format_b: the least-significant digit comes first.
format_b_lsb(key) ==
    IF key < 2
    THEN <<IF key = 1 THEN "1" ELSE "0">>
    ELSE <<IF key % 2 = 1 THEN "1" ELSE "0">> \o format_b(key \div 2)

\* Variant of format_b: digits are produced while the key is not 0, so
\* key 0 has no digit.
format_b_bare(key) ==
    IF key = 0
    THEN <<>>
    ELSE IF key = 1
         THEN <<"1">>
         ELSE Append(format_b(key \div 2), IF key % 2 = 1 THEN "1" ELSE "0")

\* format!("{key:b}"): the minimal binary rendering of key, as characters.
format_b(key) ==
    IF key < 2
    THEN <<IF key = 1 THEN "1" ELSE "0">>
    ELSE Append(format_b(key \div 2), IF key % 2 = 1 THEN "1" ELSE "0")

\* digit.parse::<u8>() on one binary digit.
parse_u8(digit) == IF digit = "1" THEN 1 ELSE 0

\* split(""), drop the empty pieces, parse each digit.
path_to_node(key) ==
    LET digits == SelectSeq(<<"">> \o format_b(key) \o <<"">>,
                            LAMBDA digit : digit # "")
    IN  [i \in 1..Len(digits) |-> parse_u8(digits[i])]

\* ------------------------------------------------------------------ hashing

\* T::to_string for T = String: the characters of the payload.
to_string(d) == [i \in 1..Len(d) |-> d[i]]

\* DefaultHasher over a string, finish().to_string().  The hash is modelled
\* as collision-free: the digest text determines the hashed text, and a
\* run of digest texts determines each of them.
hash(s) == <<"(">> \o s \o <<")">>

\* Variant of hash_of_absent: an absent child contributes the empty text
\* instead of its hash.
hash_of_absent_raw == <<>>

\* What an absent child contributes: "".hash(..), finish().to_string().
hash_of_absent == hash(<<>>)

\* Variant of remember: the hash of the node's own payload is cached
\* whatever digest was computed.
remember_own(self, digest) ==
    [self EXCEPT !.maybe_cached_merkle_root =
        Some(hash(IF is_some(self.maybe_data)
                  THEN to_string(unwrap(self.maybe_data))
                  ELSE <<>>))]

\* Variant of remember: the node is rebuilt from the default node with the
\* digest, which drops its payload and children.
remember_reset(self, digest) ==
    [new EXCEPT !.maybe_cached_merkle_root = Some(digest)]

\* Variant of remember: the digest is not stored.
remember_not(self, digest) == self

\* self.maybe_cached_merkle_root = Some(digest).
remember(self, digest) == [self EXCEPT !.maybe_cached_merkle_root = Some(digest)]

RECURSIVE merkle_root(_)

\* Variant of merkle_root: the cached digest is not consulted, the digest
\* is computed on every call.
merkle_root_recompute(self) ==
    LET is_leaf_node == \A i \in 1..2 : ~is_some(self.children[i])
        data == IF is_some(get_data(self))
                THEN to_string(unwrap(get_data(self)))
                ELSE <<>>
        hash_of_data == hash(data)
    IN  IF is_leaf_node
        THEN [ret  |-> hash_of_data,
              self |-> remember(self, hash_of_data),
              computed |-> {<<>>}]
        ELSE
          LET visit(child) ==
                  IF is_some(child)
                  THEN LET r == merkle_root(unwrap(child))
                       IN  [ret |-> r.ret, child |-> Some(r.self),
                            computed |-> r.computed]
                  ELSE [ret |-> hash_of_absent, child |-> None,
                        computed |-> {}]
              left  == visit(self.children[1])
              right == visit(self.children[2])
              h == hash(hash_of_data \o left.ret \o right.ret)
          IN  [ret  |-> h,
               self |-> remember(
                          [self EXCEPT !.children = <<left.child, right.child>>],
                          h),
               computed |-> {<<>>}
                   \cup {<<0>> \o p : p \in left.computed}
                   \cup {<<1>> \o p : p \in right.computed}]

\* The digest of the subtree at self (ret), the node as the call leaves it
\* (self) and the nodes whose digest the call computed, each as the child
\* indices leading to it from self (computed).
merkle_root(self) ==
    IF is_some(self.maybe_cached_merkle_root)
    THEN [ret |-> unwrap(self.maybe_cached_merkle_root), self |-> self,
          computed |-> {}]
    ELSE
      LET is_leaf_node == \A i \in 1..2 : ~is_some(self.children[i])
          data == IF is_some(get_data(self))
                  THEN to_string(unwrap(get_data(self)))
                  ELSE <<>>
          hash_of_data == hash(data)
      IN  IF is_leaf_node
          THEN [ret  |-> hash_of_data,
                self |-> remember(self, hash_of_data),
                computed |-> {<<>>}]
          ELSE
            LET visit(child) ==
                    IF is_some(child)
                    THEN LET r == merkle_root(unwrap(child))
                         IN  [ret |-> r.ret, child |-> Some(r.self),
                              computed |-> r.computed]
                    ELSE [ret |-> hash_of_absent, child |-> None,
                          computed |-> {}]
                left  == visit(self.children[1])
                right == visit(self.children[2])
                hash_of_left  == left.ret
                hash_of_right == right.ret
                h == hash(hash_of_data \o hash_of_left \o hash_of_right)
            IN  [ret  |-> h,
                 self |-> remember(
                            [self EXCEPT !.children = <<left.child, right.child>>],
                            h),
                 computed |-> {<<>>}
                     \cup {<<0>> \o p : p \in left.computed}
                     \cup {<<1>> \o p : p \in right.computed}]

\* ------------------------------------------------------------------ lookup

RECURSIVE find_loop(_, _, _)

\* Variant of find_loop: the path is read from its first element on, while
\* insert reads it from its last.
find_loop_forward(maybe_node, path, index) ==
    IF is_none(maybe_node)
    THEN maybe_node
    ELSE LET node == unwrap(maybe_node)
             child_number == path[Len(path) - index]
             next_node == node.children[child_number + 1]
         IN  IF index = 0
             THEN next_node
             ELSE find_loop(next_node, path, index - 1)

\* The while loop of find_by_key, from maybe_node at path index `index`.
find_loop(maybe_node, path, index) ==
    IF is_none(maybe_node)
    THEN maybe_node
    ELSE LET node == unwrap(maybe_node)
             child_number == path[index + 1]
             next_node == node.children[child_number + 1]
         IN  IF index = 0
             THEN next_node
             ELSE find_loop(next_node, path, index - 1)

\* Option<&TrieNode<T>>: the node found, as a value.
find_by_key(self, key) ==
    LET path == path_to_node(key)
        length == Len(path)
    IN  find_loop(Some(self), path, length - 1)

\* ------------------------------------------------------------------ insert

\* Variant of invalidate: the cached digests of the whole subtree are cleared.
RECURSIVE invalidate_deep(_)
invalidate_deep(node) ==
    LET clear(child) == IF is_some(child)
                        THEN Some(invalidate_deep(unwrap(child)))
                        ELSE None
    IN  [node EXCEPT !.maybe_cached_merkle_root = None,
                     !.children = <<clear(node.children[1]),
                                    clear(node.children[2])>>]

\* Variant of invalidate: the cached digest is left in place.
invalidate_not(node) == node

\* node.maybe_cached_merkle_root = None.
invalidate(node) == [node EXCEPT !.maybe_cached_merkle_root = None]

RECURSIVE insert_recurse(_, _, _, _)
insert_recurse(node, data, path, index) ==
    LET cleared == invalidate(node)
        index_of_child == IF path[index + 1] = 1 THEN 1 ELSE 0
        c == index_of_child + 1
    IN  IF index = 0
        THEN IF is_some(cleared.children[c])
             THEN LET child_node == unwrap(cleared.children[c])
                  IN  [cleared EXCEPT !.children[c] =
                         Some(set_data(invalidate(child_node), data))]
             ELSE [cleared EXCEPT !.children[c] = Some(new_with(data))]
        ELSE LET filled == IF is_none(cleared.children[c])
                           THEN [cleared EXCEPT !.children[c] = Some(new)]
                           ELSE cleared
             IN  [filled EXCEPT !.children[c] =
                    Some(insert_recurse(unwrap(filled.children[c]),
                                        data, path, index - 1))]

insert(self, key, data) ==
    LET path == path_to_node(key)
        length == Len(path)
    IN  insert_recurse(self, data, path, length - 1)

\* The child indices insert and find_by_key follow from the root to key's
\* node: both start at path index length - 1 and count down to 0.
steps(key) ==
    LET path == path_to_node(key)
        length == Len(path)
    IN  [i \in 1..length |-> path[(length - i) + 1]]

\* ------------------------------------------------------------------ panics

\* path_to_node[index] with index: usize is within bounds.
index_ok(path, index) == index >= 0 /\ index < Len(path)

\* length - 1 on usize does not underflow.
start_ok(length) == length - 1 >= 0

\* The while loop of find_by_key runs without panic: every path index it
\* uses is within bounds, and index -= 1 is only reached with index > 0.
RECURSIVE find_loop_ok(_, _, _)
find_loop_ok(maybe_node, path, index) ==
    IF is_none(maybe_node)
    THEN TRUE
    ELSE /\ index_ok(path, index)
         /\ \/ index = 0
            \/ /\ index - 1 >= 0
               /\ find_loop_ok(
                      unwrap(maybe_node).children[path[index + 1] + 1],
                      path, index - 1)

find_by_key_ok(self, key) ==
    LET path == path_to_node(key)
        length == Len(path)
    IN  start_ok(length) /\ find_loop_ok(Some(self), path, length - 1)

\* insert_recurse runs without panic: its path indices are within bounds
\* and index - 1 is only reached with index > 0.
RECURSIVE insert_recurse_ok(_, _)
insert_recurse_ok(path, index) ==
    /\ index_ok(path, index)
    /\ \/ index = 0
       \/ /\ index - 1 >= 0
          /\ insert_recurse_ok(path, index - 1)

insert_ok(key) ==
    LET path == path_to_node(key)
        length == Len(path)
    IN  start_ok(length) /\ insert_recurse_ok(path, length - 1)

\* ------------------------------------------------------------------ state

VARIABLES
    root,        \* the tree: the TrieNode the caller owns
    op,          \* the last call made on root and what it met
    find_ret,    \* the Option<&TrieNode> the last find_by_key returned;
                 \* None once a &mut call has ended the borrow
    merkle_ret,  \* Some(digest) returned by the last merkle_root; None once
                 \* an insert has changed the tree since
    inserted,    \* per key, Some(the payload last inserted) or None
    path_ret,    \* the Vec<u8> the last path_to_node call returned
    panicked     \* TRUE once a call has panicked; nothing runs after that

vars == <<root, op, find_ret, merkle_ret, inserted, path_ret, panicked>>

\* op.before (insert): None when the key's node did not exist, else
\* Some(its maybe_data) before the call.  op.hit (merkle_root): the call
\* returned the root's cached digest.
Call(name, key, data, before, hit) ==
    [name |-> name, key |-> key, data |-> data, before |-> before, hit |-> hit]

Init ==
    /\ root = new
    /\ op = Call("new", 0, <<>>, None, FALSE)
    /\ find_ret = None
    /\ merkle_ret = None
    /\ inserted = [k \in Keys |-> None]
    /\ path_ret = <<>>
    /\ panicked = FALSE

\* What a caller sees of key: None when find_by_key returns no node, else
\* Some(get_data()) of the node it returns.
lookup(self, key) ==
    LET found == find_by_key(self, key)
    IN  IF is_some(found) THEN Some(get_data(unwrap(found))) ELSE None

Insert(key, data) ==
    /\ ~panicked
    /\ op' = Call("insert", key, data,
                  IF find_by_key_ok(root, key) THEN lookup(root, key) ELSE None,
                  FALSE)
    /\ find_ret' = None
    /\ merkle_ret' = None
    /\ IF insert_ok(key)
       THEN /\ root' = insert(root, key, data)
            /\ inserted' = [inserted EXCEPT ![key] = Some(data)]
            /\ UNCHANGED panicked
       ELSE /\ panicked' = TRUE
            /\ UNCHANGED <<root, inserted>>
    /\ UNCHANGED path_ret

FindByKey(key) ==
    /\ ~panicked
    /\ op' = Call("find_by_key", key, <<>>, None, FALSE)
    /\ IF find_by_key_ok(root, key)
       THEN /\ find_ret' = find_by_key(root, key)
            /\ UNCHANGED panicked
       ELSE /\ panicked' = TRUE
            /\ UNCHANGED find_ret
    /\ UNCHANGED <<root, merkle_ret, inserted, path_ret>>

MerkleRoot ==
    LET r == merkle_root(root)
    IN  /\ ~panicked
        /\ root' = r.self
        /\ merkle_ret' = Some(r.ret)
        /\ op' = Call("merkle_root", 0, <<>>, None,
                      is_some(root.maybe_cached_merkle_root))
        /\ find_ret' = None
        /\ UNCHANGED <<inserted, path_ret, panicked>>

\* TrieNode::<T>::path_to_node(key), an associated function: no tree is
\* involved.
PathToNode(key) ==
    /\ ~panicked
    /\ path_ret' = path_to_node(key)
    /\ op' = Call("path_to_node", key, <<>>, None, FALSE)
    /\ UNCHANGED <<root, find_ret, merkle_ret, inserted, panicked>>

\* root.set_data(data), called by the owner of the tree.  merkle_ret keeps
\* the digest of the last merkle_root call.
SetData(data) ==
    /\ ~panicked
    /\ root' = set_data(root, data)
    /\ op' = Call("set_data", 0, data, Some(get_data(root)), FALSE)
    /\ find_ret' = None
    /\ UNCHANGED <<merkle_ret, inserted, path_ret, panicked>>

Next ==
    \/ \E key \in Keys, data \in Values : Insert(key, data)
    \/ \E key \in Keys : FindByKey(key)
    \/ MerkleRoot

Spec == Init /\ [][Next]_vars

\* path_to_node alone, over a wider range of keys.
NextPath == \E key \in PathKeys : PathToNode(key)

PathSpec == Init /\ [][NextPath]_vars

\* insert, find_by_key and merkle_root as in Spec, on the keys of StepKeys.
NextStep ==
    \/ \E key \in StepKeys, data \in Values : Insert(key, data)
    \/ \E key \in StepKeys : FindByKey(key)
    \/ MerkleRoot

StepSpec == Init /\ [][NextStep]_vars

\* insert, find_by_key and merkle_root with set_data on the root.
NextSetData ==
    \/ \E key \in SetDataKeys, data \in Values : Insert(key, data)
    \/ \E key \in SetDataKeys : FindByKey(key)
    \/ MerkleRoot
    \/ \E data \in Values : SetData(data)

SetDataSpec == Init /\ [][NextSetData]_vars

\* ------------------------------------------------------------------ properties

IsPrefix(p, q) == Len(p) <= Len(q) /\ \A i \in 1..Len(p) : p[i] = q[i]

ProperPrefix(p, q) == Len(p) < Len(q) /\ IsPrefix(p, q)

PrefixRelated(p, q) == IsPrefix(p, q) \/ IsPrefix(q, p)

\* The node reached from maybe_node by the child indices pos, if there.
RECURSIVE NodeAt(_, _)
NodeAt(maybe_node, pos) ==
    IF is_none(maybe_node) \/ Len(pos) = 0
    THEN maybe_node
    ELSE NodeAt(unwrap(maybe_node).children[pos[1] + 1], Tail(pos))

\* text(n): the payload's rendering, "" when the payload is absent.
Text(n) == IF is_some(n.maybe_data) THEN to_string(unwrap(n.maybe_data)) ELSE <<>>

\* The reference digest D(n), from the node's content alone.
RECURSIVE D(_)
D(n) ==
    IF is_none(n.children[1]) /\ is_none(n.children[2])
    THEN hash(Text(n))
    ELSE LET DL == IF is_some(n.children[1]) THEN D(unwrap(n.children[1]))
                   ELSE hash(<<>>)
             DR == IF is_some(n.children[2]) THEN D(unwrap(n.children[2]))
                   ELSE hash(<<>>)
         IN  hash(hash(Text(n)) \o DL \o DR)

\* C1: right after insert(k, v), find_by_key(k) returns a node whose
\* get_data() is Some(v), for every key (0 included) and every tree.
C1_InsertThenFind ==
    op.name = "insert" =>
        LET found == find_by_key(root, op.key)
        IN  /\ is_some(found)
            /\ get_data(unwrap(found)) = Some(op.data)

\* insert(0, v) has just run on a key whose node was already there, and
\* find_by_key(0) gives v.
C1_Witness ==
    /\ op.name = "insert"
    /\ op.key = 0
    /\ is_some(op.before)
    /\ lookup(root, 0) = Some(Some(op.data))

\* C2: last write wins: every key that was inserted holds the payload
\* last inserted at it, whatever inserts at other keys and merkle_root
\* calls came after.
C2_LastWriteWins ==
    \A k \in Keys :
        is_some(inserted[k]) => lookup(root, k) = Some(inserted[k])

\* insert(k, v2) has just replaced a different payload v1 at k, and
\* find_by_key(k) gives v2.
C2_Witness ==
    /\ op.name = "insert"
    /\ is_some(op.before)
    /\ is_some(unwrap(op.before))
    /\ unwrap(op.before) # Some(op.data)
    /\ lookup(root, op.key) = Some(Some(op.data))

\* C3: cache coherence: every node whose maybe_cached_merkle_root is
\* Some(d) has d = the digest recomputed from its current payload and the
\* current contents of its child subtrees.
RECURSIVE CachesCoherent(_)
CachesCoherent(n) ==
    /\ is_some(n.maybe_cached_merkle_root)
          => unwrap(n.maybe_cached_merkle_root) = D(n)
    /\ \A i \in 1..2 :
          is_some(n.children[i]) => CachesCoherent(unwrap(n.children[i]))

C3_CacheCoherence == CachesCoherent(root)

\* An insert has just run on a tree that held cached digests: the root's
\* is gone and a child's is still there.
C3_Witness ==
    /\ op.name = "insert"
    /\ is_none(root.maybe_cached_merkle_root)
    /\ \E i \in 1..2 :
          /\ is_some(root.children[i])
          /\ is_some(unwrap(root.children[i]).maybe_cached_merkle_root)

\* C4: in every reachable state merkle_root() on the root returns the
\* reference digest D(root) of the current tree content.
C4_MerkleRootIsReference == merkle_root(root).ret = D(root)

\* merkle_root has just recomputed the digest of a root with two children
\* and returned D(root).
C4_Witness ==
    /\ op.name = "merkle_root"
    /\ ~op.hit
    /\ is_some(root.children[1])
    /\ is_some(root.children[2])
    /\ merkle_ret = Some(D(root))

\* C5: merkle_root calls with no insert in between return the identical
\* digest: a call made while the digest of an earlier call still stands
\* returns that digest.
C5_RepeatedCallsAgree ==
    [][(op'.name = "merkle_root" /\ is_some(merkle_ret))
          => merkle_ret' = merkle_ret]_vars

\* merkle_root has just returned the root's cached digest (a later call).
C5_Witness ==
    /\ op.name = "merkle_root"
    /\ op.hit
    /\ (is_some(root.children[1]) \/ is_some(root.children[2]))
    /\ merkle_ret = root.maybe_cached_merkle_root

\* The tree built from the empty tree by one insert per inserted key, in
\* ascending key order, of the payload last written there.
RECURSIVE insert_all(_, _)
insert_all(self, k) ==
    IF k > MaxKey
    THEN self
    ELSE insert_all(IF is_some(inserted[k])
                    THEN insert(self, k, unwrap(inserted[k]))
                    ELSE self,
                    k + 1)

Rebuilt == insert_all(new, 0)

\* C6: the root digest depends on the inserted keys and their last
\* payloads only: merkle_root() gives what it gives on the tree built by
\* one insert per key, whatever the history of inserts and merkle_root
\* calls was.
C6_DigestOfContent == merkle_root(root).ret = merkle_root(Rebuilt).ret

\* An insert has just replaced a different payload in a tree that
\* merkle_root had run on before (a child's digest is still cached), and
\* merkle_root() gives the digest of the rebuilt tree.
C6_Witness ==
    /\ op.name = "insert"
    /\ is_some(op.before)
    /\ is_some(unwrap(op.before))
    /\ unwrap(op.before) # Some(op.data)
    /\ \E i \in 1..2 :
          /\ is_some(root.children[i])
          /\ is_some(unwrap(root.children[i]).maybe_cached_merkle_root)
    /\ merkle_root(root).ret = merkle_root(Rebuilt).ret

\* C7, as claimed: an insert that changes the payload at its key (node
\* absent, payload absent or payload different) changes merkle_root() of
\* the root.
C7_Original ==
    [][(op'.name = "insert" /\ op'.before # Some(Some(op'.data)))
          => merkle_root(root').ret # merkle_root(root).ret]_vars

\* C8, as claimed: insert(k1, v) changes neither the presence nor the
\* payload of find_by_key(k2) for any k2 # k1 whose path is not
\* prefix-related to k1's.
C8_Original ==
    [][op'.name = "insert" =>
          \A k2 \in Keys \ {op'.key} :
              ~PrefixRelated(path_to_node(op'.key), path_to_node(k2))
                  => lookup(root', k2) = lookup(root, k2)]_vars

\* C9, as claimed: find_by_key(k) returns None for every key k that was
\* never inserted and whose path is not a proper prefix of the path of
\* an inserted key.
C9_Original ==
    \A k \in Keys :
        (/\ is_none(inserted[k])
         /\ ~\E k2 \in Keys :
               /\ is_some(inserted[k2])
               /\ ProperPrefix(path_to_node(k), path_to_node(k2)))
            => is_none(find_by_key(root, k))

\* Key k1's node lies strictly between the root and key k's node.
Between(k1, k) == ProperPrefix(steps(k1), steps(k))

\* C10: every node strictly between the root and the node of an inserted
\* key exists, and has no payload unless its own key was inserted; for a
\* never inserted key with such a node find_by_key returns a node whose
\* get_data() is None.
C10_IntermediateNodesAreEmpty ==
    /\ \A k \in Keys :
          is_some(inserted[k]) =>
              \A n \in 1..(Len(steps(k)) - 1) :
                  LET pos == SubSeq(steps(k), 1, n)
                      at == NodeAt(Some(root), pos)
                  IN  /\ is_some(at)
                      /\ (~\E k2 \in Keys :
                              is_some(inserted[k2]) /\ steps(k2) = pos)
                            => get_data(unwrap(at)) = None
    /\ \A k1 \in Keys :
          (/\ is_none(inserted[k1])
           /\ \E k \in Keys : is_some(inserted[k]) /\ Between(k1, k))
              => lookup(root, k1) = Some(None)

\* find_by_key has just returned a node without payload for a never
\* inserted key whose node is on the way to an inserted key's node.
C10_Witness ==
    /\ op.name = "find_by_key"
    /\ is_none(inserted[op.key])
    /\ \E k \in Keys : is_some(inserted[k]) /\ Between(op.key, k)
    /\ is_some(find_ret)
    /\ get_data(unwrap(find_ret)) = None

\* floor(log2(key)) for key >= 1.
FloorLog2(key) == CHOOSE n \in 0..30 : 2^n <= key /\ key < 2^(n + 1)

\* The number a bit sequence spells, most-significant bit first.
RECURSIVE BitsValue(_)
BitsValue(bits) ==
    IF Len(bits) = 0
    THEN 0
    ELSE 2 * BitsValue(SubSeq(bits, 1, Len(bits) - 1)) + bits[Len(bits)]

\* C11: path_to_node(key) is the minimal binary representation of key,
\* most-significant bit first: [0] for key 0; for key >= 1 it has
\* floor(log2(key)) + 1 bits, starts with 1 and spells key; key 4 gives
\* [1,0,0] and key 1 gives [1].
C11_PathIsMinimalBinary ==
    op.name = "path_to_node" =>
        /\ \A i \in 1..Len(path_ret) : path_ret[i] \in {0, 1}
        /\ op.key = 0 => path_ret = <<0>>
        /\ op.key >= 1 =>
              /\ Len(path_ret) = FloorLog2(op.key) + 1
              /\ path_ret[1] = 1
              /\ BitsValue(path_ret) = op.key
        /\ op.key = 4 => path_ret = <<1, 0, 0>>
        /\ op.key = 1 => path_ret = <<1>>

\* path_to_node(4) has just returned [1,0,0].
C11_Witness ==
    /\ op.name = "path_to_node"
    /\ op.key = 4
    /\ path_ret = <<1, 0, 0>>

\* C12: insert and find_by_key are total: no call panics, and for every
\* key the path has at least one element, the start index length - 1 does
\* not underflow, and every path index used in the descent of either
\* operation on the current tree is within bounds and never decremented
\* below 0.
C12_NoPanic ==
    /\ ~panicked
    /\ \A key \in Keys :
          /\ Len(path_to_node(key)) >= 1
          /\ insert_ok(key)
          /\ find_by_key_ok(root, key)

\* find_by_key(0) has just returned key 0's node, with children below it,
\* without panic.
C12_Witness ==
    /\ op.name = "find_by_key"
    /\ op.key = 0
    /\ ~panicked
    /\ is_some(find_ret)
    /\ is_some(unwrap(find_ret).children[2])

\* C13, as claimed: insert and find_by_key descend from the key's
\* most-significant bit to its least-significant bit, so after
\* insert(k, v) the node holding v is the one reached from the root by
\* path_to_node(k) read left to right.
C13_Original ==
    (op.name = "insert" /\ ~panicked) =>
        LET path == path_to_node(op.key)
            at == NodeAt(Some(root), path)
        IN  /\ steps(op.key)[1] = path[1]
            /\ steps(op.key)[Len(path)] = path[Len(path)]
            /\ is_some(at)
            /\ get_data(unwrap(at)) = Some(op.data)

\* C14: right after insert(k, v) the root, every node on the way to k's
\* node and k's node itself have maybe_cached_merkle_root = None.
C14_InsertInvalidatesChain ==
    (op.name = "insert" /\ ~panicked) =>
        \A n \in 0..Len(steps(op.key)) :
            LET at == NodeAt(Some(root), SubSeq(steps(op.key), 1, n))
            IN  /\ is_some(at)
                /\ is_none(unwrap(at).maybe_cached_merkle_root)

\* insert has just overwritten a node two steps below the root in a tree
\* whose digests were cached: the root's other subtree still is.
C14_Witness ==
    /\ op.name = "insert"
    /\ Len(steps(op.key)) = 2
    /\ is_some(op.before)
    /\ \E i \in 1..2 :
          /\ i # steps(op.key)[1] + 1
          /\ is_some(root.children[i])
          /\ is_some(unwrap(root.children[i]).maybe_cached_merkle_root)
    /\ is_none(root.maybe_cached_merkle_root)

\* merkle_root on n, when n's digest is cached, returns it, leaves n's
\* whole subtree as it is and computes no digest; so for every node below.
RECURSIVE HitIsPureRead(_)
HitIsPureRead(n) ==
    /\ is_some(n.maybe_cached_merkle_root) =>
          merkle_root(n) = [ret |-> unwrap(n.maybe_cached_merkle_root),
                            self |-> n,
                            computed |-> {}]
    /\ \A i \in 1..2 :
          is_some(n.children[i]) => HitIsPureRead(unwrap(n.children[i]))

\* C15: a cache hit is a pure read: merkle_root() on a node whose
\* maybe_cached_merkle_root is Some(d) returns d, changes nothing in the
\* tree and visits no child.
C15_CacheHitIsPureRead == HitIsPureRead(root)

\* merkle_root has just been answered from the root's cache, on a root
\* with two children, and the tree is what it was.
C15_Witness ==
    /\ op.name = "merkle_root"
    /\ op.hit
    /\ is_some(root.children[1])
    /\ is_some(root.children[2])
    /\ merkle_root(root).self = root
    /\ merkle_root(root).computed = {}

RECURSIVE AllCached(_)
AllCached(n) ==
    /\ is_some(n.maybe_cached_merkle_root)
    /\ \A i \in 1..2 :
          is_some(n.children[i]) => AllCached(unwrap(n.children[i]))

RECURSIVE DownwardClosed(_)
DownwardClosed(n) ==
    /\ is_some(n.maybe_cached_merkle_root) => AllCached(n)
    /\ \A i \in 1..2 :
          is_some(n.children[i]) => DownwardClosed(unwrap(n.children[i]))

\* C16: cached digests are downward closed: below a node with a cached
\* digest every node has one; and right after merkle_root() on the root
\* every node of the tree has one.
C16_CachesDownwardClosed ==
    /\ DownwardClosed(root)
    /\ op.name = "merkle_root" => AllCached(root)

\* merkle_root has just computed the digest of a tree with a node two
\* steps below the root, and every node is cached.
C16_Witness ==
    /\ op.name = "merkle_root"
    /\ ~op.hit
    /\ \E k \in Keys : Len(steps(k)) = 2 /\ is_some(find_by_key(root, k))
    /\ AllCached(root)

\* Every node of the subtree at before is a node of the subtree at after.
RECURSIVE KeepsNodes(_, _)
KeepsNodes(before, after) ==
    \A i \in 1..2 :
        is_some(before.children[i]) =>
            /\ is_some(after.children[i])
            /\ KeepsNodes(unwrap(before.children[i]), unwrap(after.children[i]))

\* The descents of distinct keys differ: no two keys have the same node.
KeysHaveDistinctNodes == \A k1, k2 \in Keys : k1 # k2 => steps(k1) # steps(k2)

\* C17: insert(k1, v) keeps every other key's node and payload (also
\* when one node is above the other), removes no node and keeps the
\* children of the node it overwrites; distinct keys have distinct nodes.
C17_InsertKeepsOtherKeys ==
    [][(op'.name = "insert" /\ ~panicked') =>
          /\ \A k2 \in Keys \ {op'.key} :
                is_some(lookup(root, k2)) => lookup(root', k2) = lookup(root, k2)
          /\ KeepsNodes(root, root')
          /\ is_some(find_by_key(root, op'.key)) =>
                unwrap(find_by_key(root', op'.key)).children
                    = unwrap(find_by_key(root, op'.key)).children
          /\ KeysHaveDistinctNodes]_vars

\* insert has just overwritten the payload of a node that has a child
\* holding another key's payload, and that payload is still found.
C17_Witness ==
    /\ op.name = "insert"
    /\ is_some(op.before)
    /\ is_some(unwrap(op.before))
    /\ \E k2 \in Keys \ {op.key} :
          /\ ProperPrefix(steps(op.key), steps(k2))
          /\ is_some(inserted[k2])
          /\ lookup(root, k2) = Some(inserted[k2])

\* The subtree at n without its cached digests.
RECURSIVE Strip(_)
Strip(n) ==
    LET below(child) == IF is_some(child) THEN Some(Strip(unwrap(child)))
                        ELSE None
    IN  [maybe_data |-> n.maybe_data,
         children |-> <<below(n.children[1]), below(n.children[2])>>]

\* C18: merkle_root only writes caches: in every reachable state the
\* tree it leaves has the nodes, links and payloads it found, and
\* find_by_key gives for every key the presence and payload it gave before.
C18_MerkleRootOnlyWritesCaches ==
    LET after == merkle_root(root).self
    IN  /\ Strip(after) = Strip(root)
        /\ \A k \in Keys : lookup(after, k) = lookup(root, k)

\* find_by_key has just returned an inserted key's payload from a tree
\* whose digests merkle_root has all cached.
C18_Witness ==
    /\ op.name = "find_by_key"
    /\ is_some(merkle_ret)
    /\ AllCached(root)
    /\ is_some(inserted[op.key])
    /\ is_some(find_ret)
    /\ get_data(unwrap(find_ret)) = inserted[op.key]
    /\ Len(steps(op.key)) = 2

\* The cached digest of the node at position p of the tree at n: None
\* also when there is no such node.
CachedAt(n, p) ==
    LET at == NodeAt(Some(n), p)
    IN  IF is_some(at) THEN unwrap(at).maybe_cached_merkle_root ELSE None

\* The subtrees that hang off the chain from the root to the node at
\* the end of chain, and the subtrees below that node, are in after what
\* they are in before, cached digests included.
OffChainKept(before, after, chain) ==
    \A n \in 0..Len(chain) :
        LET b == NodeAt(Some(before), SubSeq(chain, 1, n))
            a == NodeAt(Some(after), SubSeq(chain, 1, n))
        IN  is_some(b) =>
                /\ is_some(a)
                /\ \A i \in 1..2 :
                      (n = Len(chain) \/ i # chain[n + 1] + 1) =>
                          unwrap(a).children[i] = unwrap(b).children[i]

\* C19: insert(k, v) leaves the cached digest of every node off the chain
\* from the root to k's node as it was (the subtrees beside the chain
\* and below k's node are untouched), and the next merkle_root() on the
\* root computes no digest for such a node that had one cached.
C19_InvalidationOnPathOnly ==
    [][(op'.name = "insert" /\ ~panicked') =>
          LET chain == steps(op'.key)
          IN  /\ OffChainKept(root, root', chain)
              /\ \A p \in merkle_root(root').computed :
                    IsPrefix(p, chain) \/ is_none(CachedAt(root, p))]_vars

\* insert has just overwritten a node that has a cached child, next to a
\* cached sibling subtree, and the next merkle_root() computes the
\* digests of the chain only.
C19_Witness ==
    /\ op.name = "insert"
    /\ is_some(op.before)
    /\ LET target == unwrap(find_by_key(root, op.key))
       IN  \E i \in 1..2 :
              /\ is_some(target.children[i])
              /\ is_some(unwrap(target.children[i]).maybe_cached_merkle_root)
    /\ \E i \in 1..2 :
          /\ i # steps(op.key)[1] + 1
          /\ is_some(root.children[i])
          /\ is_some(unwrap(root.children[i]).maybe_cached_merkle_root)
    /\ merkle_root(root).computed
          = {SubSeq(steps(op.key), 1, n) : n \in 0..Len(steps(op.key))}

\* C20: set_data(d) on the root changes maybe_data only, leaving the
\* cached digest and the children; so with the root's digest cached,
\* merkle_root() after set_data returns the digest from before it.
C20_SetDataBypassesInvalidation ==
    [][op'.name = "set_data" =>
          /\ root'.maybe_data = Some(op'.data)
          /\ root'.children = root.children
          /\ root'.maybe_cached_merkle_root = root.maybe_cached_merkle_root
          /\ is_some(root.maybe_cached_merkle_root) =>
                /\ merkle_root(root').ret = merkle_root(root).ret
                /\ merkle_root(root').ret = unwrap(root.maybe_cached_merkle_root)]_vars

\* set_data has just changed the payload of a root whose digest is
\* cached: the cached digest, which merkle_root() returns, is the one the
\* last merkle_root call returned and no longer the digest of the content.
C20_Witness ==
    /\ op.name = "set_data"
    /\ is_some(root.maybe_cached_merkle_root)
    /\ root.maybe_cached_merkle_root = merkle_ret
    /\ merkle_root(root).ret = unwrap(merkle_ret)
    /\ merkle_root(root).ret # D(root)

====
